---- MODULE Spec2Model ----
(***************************************************************************)
(* mini-dropbox-gui: the session orchestrator (MyApp::update / on_exit),   *)
(* the bootstrap task, the websocket reader task and the websocket writer  *)
(* task of src/mini-dropbox-gui/src/main.rs, with the two bounded mpsc     *)
(* channels that connect them.                                             *)
(*                                                                         *)
(*   rx     the AppEvent channel   (tx -> rx),        main.rs:56           *)
(*   to_ws  the WebSocketMessage channel (to_ws -> from_ui), main.rs:57    *)
(*                                                                         *)
(* The egui widgets, the toasts and the native file dialog are inputs:     *)
(* one frame of update sees at most one clicked widget.                    *)
(***************************************************************************)
EXTENDS Integers, Sequences, FiniteSets, TLC

(* ------------------------------ bounds -------------------------------- *)
\* capacity of the WebSocketMessage channel (100 in main.rs:57, scaled down)
QueueCap == 2
\* capacity of the AppEvent channel (100 in main.rs:56, scaled down)
EventCap == 1
\* number of frames the relay delivers to the reader in one run
MaxInbound == 2
\* number of widget clicks the user makes in one run
MaxClicks == 2

(* --------------------------- input alphabets -------------------------- *)
\* Generator::with_naming(Name::Numbered).next().unwrap_or("Guest")
Nicknames == {"guest42"}
\* paths FileDialog::pick_file can return (absolute), None when cancelled
NoPath == [root |-> FALSE, name |-> ""]
PickedFiles == {[root |-> TRUE, name |-> "tmp/a.txt"]}
\* rosters the relay can announce
Rosters == {<<"a", "b", "c">>, <<"d">>}
NodeId == "node1"
Cwd == "home"

(* ------------------------------ AppState ------------------------------ *)
AppStates ==
    {"OnStartup", "Connecting", "Ready", "WebSocketReady", "IrohReady",
     "PublishUser", "WaitForRegisterConfirmation"}

(* ------------------------------ AppEvent ------------------------------ *)
EvReadyToPublishUser == [type |-> "ReadyToPublishUser", arg |-> <<>>]
EvAllSystemsGo == [type |-> "AllSystemsGo", arg |-> <<>>]
EvRegisterSuccess == [type |-> "RegisterSuccess", arg |-> <<>>]
EvUpdateActiveUsersList(l) == [type |-> "UpdateActiveUsersList", arg |-> l]
EvFatalError(context) == [type |-> "FatalError", arg |-> <<context>>]

(* --------------------------- WebSocketMessage ------------------------- *)
\* a message is its variant and the strings it carries
Msg(tag, payload) == [tag |-> tag, payload |-> payload]
Register(n) == Msg("Register", <<n>>)
DisconnectUser(n) == Msg("DisconnectUser", <<n>>)
GetActiveUsersList(n) == Msg("GetActiveUsersList", <<n>>)
PrepareFile(p) == Msg("PrepareFile", <<p>>)
SendFile(t) == Msg("SendFile", <<t>>)

\* std::path::absolute: an empty path is an error, a rooted path is kept,
\* a relative one is joined to the current directory
AbsoluteOk(p) == p # NoPath
Absolute(p) == IF p.root THEN p ELSE [root |-> TRUE, name |-> Cwd \o "/" \o p.name]
PathString(p) == (IF p.root THEN "/" ELSE "") \o p.name

\* BlobTicket::new(node_id, tag.hash, tag.format).to_string()
Ticket(path) == "blob:" \o NodeId \o ":hash(" \o path \o "):raw"

\* a renaming that gives ReceiveFile the name of SendFile
SnakeNameClash ==
    [Register |-> "register", DisconnectUser |-> "disconnect_user",
     RegisterSuccess |-> "register_success",
     GetActiveUsersList |-> "get_active_users_list",
     ActiveUsersList |-> "active_users_list", SendFile |-> "send_file",
     ReceiveFile |-> "send_file", PrepareFile |-> "prepare_file",
     ErrorDeserializingJson |-> "error_deserializing_json"]
\* #[serde(tag = "type", content = "payload", rename_all = "snake_case")]
SnakeName ==
    [Register |-> "register", DisconnectUser |-> "disconnect_user",
     RegisterSuccess |-> "register_success",
     GetActiveUsersList |-> "get_active_users_list",
     ActiveUsersList |-> "active_users_list", SendFile |-> "send_file",
     ReceiveFile |-> "receive_file", PrepareFile |-> "prepare_file",
     ErrorDeserializingJson |-> "error_deserializing_json"]
Tags == DOMAIN SnakeName
\* the JSON shape of each variant's content
Shape ==
    [Register |-> "object", DisconnectUser |-> "string",
     RegisterSuccess |-> "absent", GetActiveUsersList |-> "string",
     ActiveUsersList |-> "array", SendFile |-> "string",
     ReceiveFile |-> "string", PrepareFile |-> "string",
     ErrorDeserializingJson |-> "string"]

\* a JSON text: the value of "type", the shape of "payload" and its strings
Json(type, shape, items) == [type |-> type, shape |-> shape, items |-> items]
ToJson(m) == Json(SnakeName[m.tag], Shape[m.tag], m.payload)

\* serde_json::from_str::<WebSocketMessage>
ShapeFits(shape, items) ==
    CASE shape = "absent" -> items = <<>>
      [] shape = "array" -> TRUE
      [] OTHER -> Len(items) = 1
Decodes(j) ==
    \E t \in Tags : SnakeName[t] = j.type /\ Shape[t] = j.shape
                    /\ ShapeFits(j.shape, j.items)
FromStr(j) ==
    LET t == CHOOSE t \in Tags : SnakeName[t] = j.type IN Msg(t, j.items)

(* ------------------------ frames from the relay ----------------------- *)
\* tungstenite Message::Text / Message::Binary, a read error, end of stream
Text(j) == [kind |-> "Text", json |-> j]
BinaryFrame == [kind |-> "Binary", json |-> Json("", "absent", <<>>)]
ReadError == [kind |-> "Err", json |-> Json("", "absent", <<>>)]
StreamEnd == [kind |-> "None", json |-> Json("", "absent", <<>>)]
RelayMessages ==
    {Msg("RegisterSuccess", <<>>), Msg("ErrorDeserializingJson", <<"bad json">>),
     Msg("ReceiveFile", <<Ticket("/tmp/z.txt")>>), Register("other")}
      \cup {Msg("ActiveUsersList", l) : l \in Rosters}
Malformed ==
    {Json("no_such_type", "absent", <<>>), Json("register_success", "string", <<"x">>)}
InboundFrames ==
    {Text(ToJson(m)) : m \in RelayMessages} \cup {Text(j) : j \in Malformed}
      \cup {BinaryFrame, ReadError, StreamEnd}

(* -------------------------------- state ------------------------------- *)
VARIABLES
    app_state,          \* MyApp.app_state
    nickname,           \* MyApp.nickname
    active_users_list,  \* MyApp.active_users_list
    files,              \* MyApp.files
    selected_file,      \* MyApp.selected_file
    rx,                 \* the AppEvent channel, oldest first
    to_ws,              \* the WebSocketMessage channel, oldest first
    from_ui,            \* who holds the channel's Receiver
    ui_pc,              \* the UI thread: idle, drain, match, exited, panicked
    boot_pc,            \* the bootstrap task
    spawned,            \* Receivers taken and tasks spawned so far
    reader_pc,          \* the reader task
    reader_ev,          \* the event process_message is sending
    stream,             \* the websocket read half: open, ended
    writer_pc,          \* the writer task
    writer_msg,         \* the command the writer holds, and the frame it built
    wire,               \* frames handed to the websocket sink, oldest first
    n_in,               \* frames the reader has taken from the stream
    stdout,             \* the tickets process_message has printed
    to_resolve,         \* the tickets handed to the iroh node to be fetched
    decoded,            \* what from_str made of the frame on the wire (CodecSpec)
    n_sub,              \* commands the UI thread has tried to submit
    n_click,            \* widget clicks so far
    rejected,           \* ids of the commands try_send refused
    last                \* the UI thread's last step in this frame

vars ==
    <<app_state, nickname, active_users_list, files, selected_file, rx, to_ws,
      from_ui, ui_pc, boot_pc, spawned, reader_pc, reader_ev, stream, writer_pc,
      writer_msg, wire, n_in, stdout, to_resolve, decoded, n_sub, n_click,
      rejected, last>>

ui_vars == <<app_state, nickname, active_users_list, files, selected_file, ui_pc,
             n_sub, n_click, rejected, last>>
boot_vars == <<boot_pc, spawned>>
reader_vars == <<reader_pc, reader_ev, stream, n_in, stdout, to_resolve, decoded>>
writer_vars == <<writer_pc, writer_msg, wire>>

NoEvent == [type |-> "", arg |-> <<>>]
NoCmd == [id |-> 0, msg |-> Msg("", <<>>), json |-> Json("", "absent", <<>>)]
\* last: the step (event handled, match arm run, on_exit), the state and roster
\* it started from, the widget clicked, the commands it tried to submit, and
\* whether try_send found the channel at capacity
NoneSpawned == [take |-> 0, boot |-> 0, reader |-> 0, writer |-> 0]
NotDecoded == [stage |-> "none", ok |-> FALSE, msg |-> Msg("", <<>>)]
NoStep == [op |-> "none", ev |-> NoEvent, pre |-> "OnStartup", roster |-> <<>>,
           click |-> "none", subs |-> <<>>, full |-> FALSE]

\* MyApp::new
Init ==
    /\ app_state = "OnStartup"
    /\ nickname = ""
    /\ active_users_list = <<>>
    /\ files = <<>>
    /\ selected_file = NoPath
    /\ rx = <<>>
    /\ to_ws = <<>>
    /\ from_ui = "startup"
    /\ ui_pc = "idle"
    /\ boot_pc = "none"
    /\ spawned = NoneSpawned
    /\ reader_pc = "none"
    /\ reader_ev = NoEvent
    /\ stream = "open"
    /\ writer_pc = "none"
    /\ writer_msg = NoCmd
    /\ wire = <<>>
    /\ n_in = 0
    /\ stdout = <<>>
    /\ to_resolve = <<>>
    /\ decoded = NotDecoded
    /\ n_sub = 0
    /\ n_click = 0
    /\ rejected = {}
    /\ last = NoStep

(* ------------------------------ channels ------------------------------ *)
\* Sender<AppEvent>::send(..).await completes once the channel has room
CanSend(q) == Len(q) < EventCap
\* Sender<AppEvent>::try_send(..).ok(): the event is lost when there is no room
TryPost(q, ev) == IF Len(q) < EventCap THEN Append(q, ev) ELSE q
\* Sender<WebSocketMessage>::try_send: Err(Closed) once the Receiver is dropped,
\* Err(Full) when the channel holds its capacity
\* a capacity test that lets one command too many in
TrySendFullOffByOne(q) == Len(q) > QueueCap
TrySendFull(q) == Len(q) >= QueueCap
TrySendAccepts(q) == from_ui # "dropped" /\ ~TrySendFull(q)

\* one try_send of the UI thread and its `if let Err(e)` arm; c carries the two
\* channels through the statements of one frame
Submit(c, m, context) ==
    IF TrySendAccepts(c.q)
    THEN [c EXCEPT !.q = Append(c.q, [id |-> c.n + 1, msg |-> m]), !.n = c.n + 1,
                   !.subs = Append(c.subs, m)]
    ELSE [c EXCEPT !.ev = TryPost(c.ev, EvFatalError(context)), !.n = c.n + 1,
                   !.subs = Append(c.subs, m),
                   !.rej = c.rej \cup {c.n + 1},
                   !.full = c.full \/ (from_ui # "dropped")]
Frame0 == [q |-> to_ws, ev |-> rx, n |-> n_sub, rej |-> rejected, subs |-> <<>>,
           full |-> FALSE]

(* --------------------------- the event handler ------------------------ *)
\* a handler for RegisterSuccess that shows the toast and forgets the transition
NextStateNoAck(st, ev) ==
    CASE ev.type = "ReadyToPublishUser" -> "PublishUser"
      [] ev.type = "AllSystemsGo" -> "Ready"
      [] OTHER -> st
\* a handler that takes an acknowledgement in Ready as a request to register again
NextStateReRegister(st, ev) ==
    CASE ev.type = "ReadyToPublishUser" -> "PublishUser"
      [] ev.type = "AllSystemsGo" -> "Ready"
      [] ev.type = "RegisterSuccess" -> IF st = "Ready" THEN "PublishUser" ELSE "Ready"
      [] OTHER -> st
\* main.rs:96-109, the state each AppEvent leaves
NextState(st, ev) ==
    CASE ev.type = "ReadyToPublishUser" -> "PublishUser"
      [] ev.type = "AllSystemsGo" -> "Ready"
      [] ev.type = "RegisterSuccess" -> "Ready"
      [] OTHER -> st
\* a handler that extends the roster instead of replacing it
NextRosterMerge(roster, ev) ==
    IF ev.type = "UpdateActiveUsersList" THEN roster \o ev.arg ELSE roster
\* main.rs:103-105, the roster each AppEvent leaves
NextRoster(roster, ev) ==
    IF ev.type = "UpdateActiveUsersList" THEN ev.arg ELSE roster

\* one iteration of `while let Ok(app_event) = self.rx.try_recv()`
UpdateRecv ==
    /\ ui_pc \in {"idle", "drain"}
    /\ rx # <<>>
    /\ app_state' = NextState(app_state, Head(rx))
    /\ active_users_list' = NextRoster(active_users_list, Head(rx))
    /\ rx' = Tail(rx)
    /\ ui_pc' = "drain"
    /\ last' = [NoStep EXCEPT !.op = "event", !.ev = Head(rx), !.pre = app_state,
                              !.roster = active_users_list]
    /\ UNCHANGED <<nickname, files, selected_file, to_ws, from_ui, n_sub, n_click,
                   rejected>>
    /\ UNCHANGED <<boot_vars, reader_vars, writer_vars>>

\* try_recv returns Err(Empty): the loop ends and the match on app_state follows
UpdateDrained ==
    /\ ui_pc \in {"idle", "drain"}
    /\ rx = <<>>
    /\ ui_pc' = "match"
    /\ last' = NoStep
    /\ UNCHANGED <<app_state, nickname, active_users_list, files, selected_file, rx,
                   to_ws, from_ui, n_sub, n_click, rejected>>
    /\ UNCHANGED <<boot_vars, reader_vars, writer_vars>>

(* ------------------------- match &mut self.app_state ------------------ *)
MatchStep(c) ==
    [NoStep EXCEPT !.op = "match", !.pre = app_state, !.roster = active_users_list,
                   !.subs = c.subs, !.full = c.full]

\* AppState::OnStartup: take the Receiver, name the session, spawn the bootstrap;
\* from_ui.take().unwrap() panics if the Receiver was taken before
OnStartup ==
    /\ ui_pc = "match"
    /\ app_state = "OnStartup"
    /\ last' = MatchStep(Frame0)
    /\ IF from_ui = "startup"
       THEN /\ \E n \in Nicknames : nickname' = n
            /\ from_ui' = "boot"
            /\ boot_pc' = "join"
            /\ spawned' = [spawned EXCEPT !.take = @ + 1, !.boot = @ + 1]
            /\ app_state' = "Connecting"
            /\ ui_pc' = "idle"
       ELSE /\ ui_pc' = "panicked"
            /\ UNCHANGED <<nickname, from_ui, boot_vars, app_state>>
    /\ UNCHANGED <<active_users_list, files, selected_file, rx, to_ws, n_sub,
                   n_click, rejected>>
    /\ UNCHANGED <<reader_vars, writer_vars>>

\* AppState::Connecting, WaitForRegisterConfirmation and the `_ => {}` arm
Idle ==
    /\ ui_pc = "match"
    /\ app_state \in {"Connecting", "WaitForRegisterConfirmation", "WebSocketReady",
                      "IrohReady"}
    /\ ui_pc' = "idle"
    /\ last' = MatchStep(Frame0)
    /\ UNCHANGED <<app_state, nickname, active_users_list, files, selected_file, rx,
                   to_ws, from_ui, n_sub, n_click, rejected>>
    /\ UNCHANGED <<boot_vars, reader_vars, writer_vars>>

\* AppState::PublishUser: try_send Register, then wait for the confirmation
PublishUser ==
    /\ ui_pc = "match"
    /\ app_state = "PublishUser"
    /\ LET c == Submit(Frame0, Register(nickname), "Register send failed") IN
         /\ to_ws' = c.q
         /\ rx' = c.ev
         /\ n_sub' = c.n
         /\ rejected' = c.rej
         /\ last' = MatchStep(c)
    /\ app_state' = "WaitForRegisterConfirmation"
    /\ ui_pc' = "idle"
    /\ UNCHANGED <<nickname, active_users_list, files, selected_file, from_ui, n_click>>
    /\ UNCHANGED <<boot_vars, reader_vars, writer_vars>>

\* AppState::Ready, main.rs:244-305. click is the widget clicked in this frame:
\*   none | select (with the dialog's answer) | send_to (a row of files) |
\*   roster (a row of active_users_list)
NoClick == [w |-> "none", i |-> 0, pick |-> NoPath]
Clicks ==
    {NoClick}
      \cup {[w |-> "select", i |-> 0, pick |-> p] : p \in PickedFiles \cup {NoPath}}
      \cup {[w |-> "send_to", i |-> i, pick |-> NoPath] : i \in 1..Len(files)}
      \cup {[w |-> "roster", i |-> i, pick |-> NoPath] : i \in 1..Len(active_users_list)}

\* FileDialog::new().set_directory("/").pick_file().unwrap()
SelectPanics(click) == click.w = "select" /\ click.pick = NoPath
FilesAfter(click) ==
    IF click.w = "select" /\ click.pick # NoPath THEN Append(files, click.pick) ELSE files
\* "Send to": selected_file = p.clone(); try_send GetActiveUsersList
SelectedAfterSendTo(click) ==
    IF click.w = "send_to" THEN files[click.i] ELSE selected_file
AfterSendTo(click) ==
    IF click.w = "send_to"
    THEN Submit(Frame0, GetActiveUsersList(nickname),
                "Failed to send WebSocket message to pipe")
    ELSE Frame0
\* main.rs:269-282: a non-empty selected_file is published and cleared
AfterPublish(c, sel) ==
    IF sel # NoPath
    THEN Submit(c, PrepareFile(PathString(Absolute(sel))), "failed to send websocket msg")
    ELSE c
SelectedAfterPublish(sel) == NoPath
\* main.rs:284-305: a roster button publishes selected_file as it is now;
\* std::path::absolute(..).unwrap() panics on the empty path
RosterPanics(click, sel) == click.w = "roster" /\ ~AbsoluteOk(sel)
AfterRoster(c, click, sel) ==
    IF click.w = "roster" /\ AbsoluteOk(sel)
    THEN Submit(c, PrepareFile(PathString(Absolute(sel))), "failed to send websocket msg")
    ELSE c

Ready ==
    /\ ui_pc = "match"
    /\ app_state = "Ready"
    /\ \E click \in Clicks :
         /\ click.w # "none" => n_click < MaxClicks
         /\ n_click' = IF click.w # "none" THEN n_click + 1 ELSE n_click
         /\ IF SelectPanics(click)
            THEN /\ ui_pc' = "panicked"
                 /\ last' = [MatchStep(Frame0) EXCEPT !.click = click.w]
                 /\ UNCHANGED <<files, selected_file, to_ws, rx, n_sub, rejected>>
            ELSE LET sel1 == SelectedAfterSendTo(click)
                     c1 == AfterSendTo(click)
                     c2 == AfterPublish(c1, sel1)
                     sel2 == IF sel1 # NoPath THEN SelectedAfterPublish(sel1) ELSE sel1
                     c3 == AfterRoster(c2, click, sel2)
                 IN /\ files' = FilesAfter(click)
                    /\ selected_file' = sel2
                    /\ to_ws' = c3.q
                    /\ rx' = c3.ev
                    /\ n_sub' = c3.n
                    /\ rejected' = c3.rej
                    /\ last' = [MatchStep(c3) EXCEPT !.click = click.w]
                    /\ ui_pc' = IF RosterPanics(click, sel2) THEN "panicked" ELSE "idle"
    /\ UNCHANGED <<app_state, nickname, active_users_list, from_ui>>
    /\ UNCHANGED <<boot_vars, reader_vars, writer_vars>>

\* MyApp::on_exit, called once between two frames
OnExit ==
    /\ ui_pc = "idle"
    /\ LET c == Submit(Frame0, DisconnectUser(nickname), "Disconnect send failed") IN
         /\ to_ws' = c.q
         /\ rx' = c.ev
         /\ n_sub' = c.n
         /\ rejected' = c.rej
         /\ last' = [MatchStep(c) EXCEPT !.op = "exit"]
    /\ ui_pc' = "exited"
    /\ UNCHANGED <<app_state, nickname, active_users_list, files, selected_file,
                   from_ui, n_click>>
    /\ UNCHANGED <<boot_vars, reader_vars, writer_vars>>

(* --------------------------- the bootstrap task ----------------------- *)
\* tokio::try_join!(ws_init, iroh_init): Ok when both are, else the first error.
\* On Ok the reader and the writer are spawned (the writer takes from_ui).
TryJoin(ws_ok, iroh_ok) == ws_ok /\ iroh_ok
\* a bootstrap that reports ReadyToPublishUser and spawns neither task
BootJoinNoSpawn ==
    /\ boot_pc = "join"
    /\ CanSend(rx)
    /\ rx' = Append(rx, EvReadyToPublishUser)
    /\ boot_pc' = "ready_sent"
    /\ UNCHANGED <<ui_vars, to_ws, from_ui, spawned, reader_vars, writer_vars>>
BootJoin ==
    /\ boot_pc = "join"
    /\ \E ws_ok \in BOOLEAN, iroh_ok \in BOOLEAN :
         IF TryJoin(ws_ok, iroh_ok)
         THEN /\ reader_pc' = "next"
              /\ writer_pc' = "recv"
              /\ from_ui' = "writer"
              /\ spawned' = [spawned EXCEPT !.reader = @ + 1, !.writer = @ + 1]
              /\ boot_pc' = "send_ready"
         ELSE /\ boot_pc' \in {e \in {"fatal_ws", "fatal_iroh"} :
                                   \/ e = "fatal_ws" /\ ~ws_ok
                                   \/ e = "fatal_iroh" /\ ~iroh_ok}
              /\ UNCHANGED <<reader_pc, writer_pc, from_ui, spawned>>
    /\ UNCHANGED <<ui_vars, rx, to_ws, reader_ev, stream, n_in, stdout, to_resolve,
                   decoded, writer_msg, wire>>

\* tx.send(AppEvent::ReadyToPublishUser).await.ok()
BootSendReady ==
    /\ boot_pc = "send_ready"
    /\ CanSend(rx)
    /\ rx' = Append(rx, EvReadyToPublishUser)
    /\ boot_pc' = "ready_sent"
    /\ UNCHANGED <<ui_vars, to_ws, from_ui, spawned, reader_vars, writer_vars>>

\* Err(e) => tx.send(AppEvent::FatalError(e)).await.ok(); the task ends and drops
\* the Receiver it captured
BootContext == [fatal_ws |-> "WebSocket connection failed",
                fatal_iroh |-> "Iroh node initialization failed"]
BootSendFatal ==
    /\ boot_pc \in DOMAIN BootContext
    /\ CanSend(rx)
    /\ rx' = Append(rx, EvFatalError(BootContext[boot_pc]))
    /\ boot_pc' = "fatal_sent"
    /\ from_ui' = "dropped"
    /\ to_ws' = <<>>
    /\ UNCHANGED <<ui_vars, spawned, reader_vars, writer_vars>>

(* ----------------------------- the reader task ------------------------ *)
\* process_message, main.rs:328-364: the event a frame is turned into, NoEvent
\* when the frame is only printed or ignored
DecodedEvent(m) ==
    CASE m.tag = "RegisterSuccess" -> EvRegisterSuccess
      [] m.tag = "ErrorDeserializingJson" -> EvFatalError("Server JSON error")
      [] m.tag = "ActiveUsersList" -> EvUpdateActiveUsersList(m.payload)
      [] OTHER -> NoEvent
ProcessMessage(f) ==
    IF f.kind = "Text"
    THEN IF Decodes(f.json)
         THEN DecodedEvent(FromStr(f.json))
         ELSE EvFatalError("Message parse failed")
    ELSE NoEvent
\* main.rs:347-349: `println!("ticket is {ticket}")` is all a ReceiveFile does
Printed(f) ==
    IF f.kind = "Text" /\ Decodes(f.json) /\ FromStr(f.json).tag = "ReceiveFile"
    THEN FromStr(f.json).payload
    ELSE <<>>

\* `if let Some(Ok(msg)) = receiver.next().await`: a frame, a read error or the
\* end of the stream; only Some(Ok(msg)) reaches process_message
ReaderNext ==
    /\ reader_pc = "next"
    /\ stream = "open"
    /\ \E f \in InboundFrames :
         IF f = StreamEnd
         THEN /\ stream' = "ended"
              /\ UNCHANGED <<reader_pc, reader_ev, n_in, stdout>>
         ELSE /\ n_in < MaxInbound
              /\ n_in' = n_in + 1
              /\ stream' = IF f = ReadError THEN "ended" ELSE "open"
              /\ reader_ev' = IF f = ReadError THEN NoEvent ELSE ProcessMessage(f)
              /\ reader_pc' = IF reader_ev' = NoEvent THEN "next" ELSE "send"
              /\ stdout' = stdout \o Printed(f)
    /\ UNCHANGED <<to_resolve, decoded>>
    /\ UNCHANGED <<ui_vars, rx, to_ws, from_ui, boot_vars, writer_vars>>

\* the stream has ended: next() yields None again and the loop goes round
ReaderSpin ==
    /\ reader_pc = "next"
    /\ stream = "ended"
    /\ UNCHANGED vars

\* a reader that posts with try_send(event).ok() and goes on
ReaderTrySend ==
    /\ reader_pc = "send"
    /\ rx' = TryPost(rx, reader_ev)
    /\ reader_ev' = NoEvent
    /\ reader_pc' = "next"
    /\ UNCHANGED <<ui_vars, to_ws, from_ui, boot_vars, stream, n_in, stdout,
                   to_resolve, decoded, writer_vars>>
\* tx.send(event).await.ok() inside process_message, which returns Continue
ReaderSend ==
    /\ reader_pc = "send"
    /\ CanSend(rx)
    /\ rx' = Append(rx, reader_ev)
    /\ reader_ev' = NoEvent
    /\ reader_pc' = "next"
    /\ UNCHANGED <<ui_vars, to_ws, from_ui, boot_vars, stream, n_in, stdout,
                   to_resolve, decoded, writer_vars>>

(* ----------------------------- the writer task ------------------------ *)
\* a receiver that hands out the newest command first
PopNewest(q) == [cmd |-> q[Len(q)], rest |-> SubSeq(q, 1, Len(q) - 1)]
\* Receiver::recv: the oldest command, and what stays in the channel
PopCommand(q) == [cmd |-> Head(q), rest |-> Tail(q)]

\* `while let Some(websocket_msg) = from_ui.recv().await`
WriterRecv ==
    /\ writer_pc = "recv"
    /\ to_ws # <<>>
    /\ LET c == PopCommand(to_ws).cmd IN
         /\ to_ws' = PopCommand(to_ws).rest
         /\ IF c.msg.tag = "PrepareFile"
            THEN /\ writer_msg' = [id |-> c.id, msg |-> c.msg, json |-> NoCmd.json]
                 /\ writer_pc' = "add_path"
            ELSE /\ writer_msg' = [id |-> c.id, msg |-> c.msg, json |-> ToJson(c.msg)]
                 /\ writer_pc' = "send"
    /\ UNCHANGED <<ui_vars, rx, from_ui, boot_vars, reader_vars, wire>>

\* iroh_node.store.blobs().add_path(abs_path).await.unwrap(): the ticket of the
\* blob, or a panic that ends the task and drops the Receiver
WriterAddPath ==
    /\ writer_pc = "add_path"
    /\ \E readable \in BOOLEAN :
         IF readable
         THEN /\ writer_msg' =
                   [writer_msg EXCEPT
                      !.json = ToJson(SendFile(Ticket(writer_msg.msg.payload[1])))]
              /\ writer_pc' = "send"
              /\ UNCHANGED <<from_ui, to_ws>>
         ELSE /\ writer_msg' = NoCmd
              /\ writer_pc' = "panicked"
              /\ from_ui' = "dropped"
              /\ to_ws' = <<>>
    /\ UNCHANGED <<ui_vars, rx, boot_vars, reader_vars, wire>>

\* sender.send(Message::Text(json.into())).await.context("Websocket send failed")
WriterSend ==
    /\ writer_pc = "send"
    /\ \E sent \in BOOLEAN :
         /\ wire' = Append(wire, [id |-> writer_msg.id, json |-> writer_msg.json])
         /\ writer_pc' = IF sent THEN "recv" ELSE "report"
    /\ writer_msg' = NoCmd
    /\ UNCHANGED <<ui_vars, rx, to_ws, from_ui, boot_vars, reader_vars>>

\* tx_clone.send(AppEvent::FatalError(e)).await.ok()
WriterReport ==
    /\ writer_pc = "report"
    /\ CanSend(rx)
    /\ rx' = Append(rx, EvFatalError("Websocket send failed"))
    /\ writer_pc' = "recv"
    /\ UNCHANGED <<ui_vars, to_ws, from_ui, boot_vars, reader_vars, writer_msg, wire>>

(* ---------------------------- specification --------------------------- *)
Next ==
    \/ UpdateRecv
    \/ UpdateDrained
    \/ OnStartup
    \/ Idle
    \/ PublishUser
    \/ Ready
    \/ OnExit
    \/ BootJoin
    \/ BootSendReady
    \/ BootSendFatal
    \/ ReaderNext
    \/ ReaderSpin
    \/ ReaderSend
    \/ WriterRecv
    \/ WriterAddPath
    \/ WriterSend
    \/ WriterReport

Spec == Init /\ [][Next]_vars

TypeOK ==
    /\ app_state \in AppStates
    /\ ui_pc \in {"idle", "drain", "match", "exited", "panicked"}
    /\ Len(rx) <= EventCap
    /\ Len(to_ws) <= QueueCap
    /\ from_ui \in {"startup", "boot", "writer", "dropped"}

(* ------------------------------ properties ---------------------------- *)
\* the UI thread takes an event of type t off the AppEvent channel in this step
Handles(t) == rx # <<>> /\ Head(rx).type = t /\ rx' = Tail(rx)
\* the UI thread has just handled an event of type t, starting in state st
Handled(t, st) == last.op = "event" /\ last.ev.type = t /\ last.pre = st

BootFailed == boot_pc \in {"fatal_ws", "fatal_iroh", "fatal_sent"}

\* C1: whenever the websocket connect or the iroh initialisation fails, a
\* FatalError is emitted, the session state becomes Failed once it is handled,
\* the state is never Ready and neither the reader nor the writer is spawned.
C1_BootstrapAllOrNothing ==
    BootFailed =>
        /\ app_state # "Ready"
        /\ reader_pc = "none" /\ writer_pc = "none"
        /\ last.op = "event" /\ last.ev.type = "FatalError" => app_state = "Failed"

\* the part of C1 the code keeps: a failed bootstrap emits exactly the FatalError,
\* spawns no task and never reaches Ready
C1_NoPartialBootstrap ==
    BootFailed =>
        /\ app_state = "Connecting"
        /\ reader_pc = "none" /\ writer_pc = "none"
        /\ boot_pc = "fatal_sent" /\ ui_pc # "exited" =>
             \/ rx = <<EvFatalError("WebSocket connection failed")>>
             \/ rx = <<EvFatalError("Iroh node initialization failed")>>
             \/ rx = <<>>

\* C2: WaitForRegisterConfirmation is entered only from PublishUser, in the step
\* that submits Register with the session's nickname, and a RegisterSuccess
\* handled in WaitForRegisterConfirmation leaves the state Ready.
C2_RegisterAckReachesReady ==
    /\ [](Handled("RegisterSuccess", "WaitForRegisterConfirmation")
            => app_state = "Ready")
    /\ [][(app_state' = "WaitForRegisterConfirmation"
             /\ app_state # "WaitForRegisterConfirmation")
            => /\ app_state = "PublishUser"
               /\ last'.subs = <<Register(nickname)>>
               /\ nickname \in Nicknames
               /\ n_sub' = n_sub + 1]_vars
C2_Witness ==
    /\ Handled("RegisterSuccess", "WaitForRegisterConfirmation")
    /\ app_state = "Ready"
    /\ \E i \in 1..Len(wire) : wire[i].json = ToJson(Register(nickname))

\* C3: a RegisterSuccess handled in Ready leaves the state Ready and leaves the
\* roster, the selected file and the command channel as they were.
C3_DuplicateRegisterSuccessNoOp ==
    [][(app_state = "Ready" /\ Handles("RegisterSuccess"))
         => /\ app_state' = "Ready"
            /\ UNCHANGED <<active_users_list, selected_file, to_ws, files, nickname>>]_vars
C3_Witness ==
    /\ Handled("RegisterSuccess", "Ready")
    /\ app_state = "Ready"
    /\ to_ws # <<>>

\* C4: handling UpdateActiveUsersList(l) leaves the roster equal to l, whatever
\* it held before, and no other step changes the roster.
C4_RosterReplaced ==
    /\ [][Handles("UpdateActiveUsersList") => active_users_list' = Head(rx).arg]_vars
    /\ [][active_users_list' # active_users_list
            => Handles("UpdateActiveUsersList")]_vars
C4_Witness ==
    /\ last.op = "event"
    /\ last.ev = EvUpdateActiveUsersList(<<"d">>)
    /\ last.roster = <<"a", "b", "c">>
    /\ active_users_list = <<"d">>

\* the ids of the commands that are in the channel, in the writer's hands or
\* already handed to the websocket sink
InChannel == {to_ws[i].id : i \in 1..Len(to_ws)}
InWriter == IF writer_msg = NoCmd THEN {} ELSE {writer_msg.id}
OnWire == {wire[i].id : i \in 1..Len(wire)}

\* C5: a try_send that finds the command channel at capacity fails at once: the
\* step of the UI thread it belongs to completes, every command of that step is
\* refused, the channel is left as it was, and a refused command is never in the
\* channel, in the writer's hands or on the wire.
C5_FullQueueRejects ==
    /\ [](rejected \cap (InChannel \cup InWriter \cup OnWire) = {})
    /\ [][(n_sub' > n_sub /\ Len(to_ws) = QueueCap /\ from_ui # "dropped")
            => /\ to_ws' = to_ws
               /\ rejected' = rejected \cup (n_sub + 1 .. n_sub')
               /\ ui_pc' \in {"idle", "exited"}
               /\ last'.full]_vars
C5_Witness ==
    /\ last.full
    /\ Len(to_ws) = QueueCap
    /\ n_sub \in rejected
    /\ ui_pc = "idle"

\* C6: the frames handed to the websocket sink follow the order in which their
\* commands were accepted by the channel, also behind a PrepareFile.
C6_WriterFifo ==
    /\ \A i \in 1..Len(wire) : \A j \in 1..Len(wire) :
         i < j => wire[i].id < wire[j].id
    /\ \A i \in 1..Len(to_ws) : \A j \in 1..Len(to_ws) :
         i < j => to_ws[i].id < to_ws[j].id
    /\ \A a \in OnWire \cup InWriter : \A b \in InChannel : a < b
    /\ \A a \in OnWire : \A b \in InWriter : a < b
C6_Witness ==
    \E i \in 1..Len(wire) : \E j \in 1..Len(wire) :
        /\ i < j
        /\ wire[i].json.type = "send_file"
        /\ wire[j].json.type = "disconnect_user"

\* C7: every frame the reader takes from the stream, whatever its kind, leaves
\* the reader posting an event on the AppEvent channel.
C7_NoSilentDrop ==
    [][n_in' = n_in + 1 => reader_pc' = "send" /\ reader_ev' # NoEvent]_vars

\* the part of C7 the code keeps: a text frame that does not decode is turned
\* into a FatalError("Message parse failed")
C7_DecodeFailureReported ==
    \A j \in Malformed : ProcessMessage(Text(j)) = EvFatalError("Message parse failed")

\* C8: handling a FatalError leaves the state Failed, Failed is never left, and
\* in Failed the UI thread submits no command.
C8_FatalErrorAbsorbing ==
    /\ [][Handles("FatalError") => app_state' = "Failed"]_vars
    /\ [][app_state = "Failed" => app_state' = "Failed" /\ n_sub' = n_sub]_vars

\* what the code does instead: FatalError changes nothing of the session
C8_FatalErrorChangesNothing ==
    [][Handles("FatalError")
         => UNCHANGED <<app_state, active_users_list, selected_file, to_ws, n_sub>>]_vars

\* C9, its four sources of error: each puts a FatalError on the AppEvent channel
ParseFailureReported ==
    [][(n_in' = n_in + 1 /\ reader_pc' = "next")
         => \A j \in Malformed : reader_ev' # ProcessMessage(Text(j))]_vars
ServerNoticeReported ==
    ProcessMessage(Text(ToJson(Msg("ErrorDeserializingJson", <<"bad json">>))))
        = EvFatalError("Server JSON error")
SendFailureReported ==
    [][(writer_pc = "report" /\ writer_pc' # "report")
         => rx' = Append(rx, EvFatalError("Websocket send failed"))]_vars
QueueFullReported ==
    [][(ui_pc = "match" /\ n_sub' > n_sub /\ Len(to_ws) = QueueCap
          /\ from_ui # "dropped")
         => \E i \in 1..Len(rx') : i > Len(rx) /\ rx'[i].type = "FatalError"]_vars
\* C9, the effect of such an event: state and roster stay, the UI thread goes on
ErrorEventHarmless ==
    [][Handles("FatalError")
         => UNCHANGED <<app_state, active_users_list>> /\ ui_pc' = "drain"]_vars

\* C9: a decode failure, a send failure, a full command channel and a server
\* notice each produce a FatalError event, and handling it leaves the session
\* state and the roster unchanged and the session running.
C9_OnlyBootstrapFatal ==
    /\ ParseFailureReported
    /\ ServerNoticeReported
    /\ SendFailureReported
    /\ QueueFullReported
    /\ ErrorEventHarmless

\* C10: a failed add_path is reported as an event and the writer task goes on
\* with the commands behind it.
C10_PublishFailureReported ==
    /\ [](writer_pc # "panicked")
    /\ [][(writer_pc = "add_path" /\ writer_pc' \notin {"add_path", "send"})
            => writer_pc' = "report" /\ from_ui' = "writer"]_vars

(* ---------------------------- C11 .. C20 ------------------------------ *)
\* the reader task is inside its loop
ReaderRunning == reader_pc \in {"next", "send"}

\* C11: the reader task terminates when the connection closes or errors: the
\* step in which next() yields the end of the stream (None) or a read error is
\* the last of the loop, so that no reader is left polling an ended stream.
C11_ReaderStopsAtStreamEnd ==
    [][(stream = "open" /\ stream' = "ended") => ~ReaderRunning']_vars

\* on_exit runs in this step
Exits == ui_pc # "exited" /\ ui_pc' = "exited"

\* C12: on exit the UI thread makes exactly one attempt to enqueue
\* DisconnectUser with the session's nickname (the one every Register carries);
\* an attempt the channel refuses (full or closed) puts an error event on the
\* AppEvent channel, is not repeated, and the exit goes on.
C12_ExitDisconnectsOnce ==
    [][Exits =>
         /\ n_sub' = n_sub + 1
         /\ last'.subs = <<DisconnectUser(nickname)>>
         /\ \A i \in 1..Len(to_ws) :
              to_ws[i].msg.tag = "Register" => to_ws[i].msg = Register(nickname)
         /\ IF n_sub' \in rejected'
            THEN /\ rx' = Append(rx, EvFatalError("Disconnect send failed"))
                 /\ to_ws' = to_ws
            ELSE /\ to_ws' = Append(to_ws, [id |-> n_sub', msg |-> DisconnectUser(nickname)])
                 /\ rx' = rx]_vars
\* the part of C12 that holds: one attempt, never repeated, that carries the
\* nickname and is queued behind the commands already accepted
C12_OneAttempt ==
    [][Exits =>
         /\ n_sub' = n_sub + 1
         /\ last'.subs = <<DisconnectUser(nickname)>>
         /\ n_sub' \notin rejected'
              => to_ws' = Append(to_ws, [id |-> n_sub', msg |-> DisconnectUser(nickname)])]_vars

\* C13: every ReceiveFile{ticket} the reader receives hands that ticket,
\* unmodified, to the iroh node to be fetched: one request per ReceiveFile, in
\* the order received (stdout holds the ticket of every ReceiveFile decoded).
C13_TicketsResolved == to_resolve = stdout

(* ------------------------- the codec on its own ------------------------ *)
\* the strings and lists the messages of CodecSpec carry
CodecStrings == {"", "guest42", "Guest 7", "/tmp/a.txt", Ticket("/tmp/a.txt")}
CodecLists == Rosters \cup {<<>>, <<"a">>, <<"a", "b">>, <<"b", "a">>}
CodecMessages ==
    {Msg(t, <<str>>) : t \in {t \in Tags : Shape[t] \in {"string", "object"}},
                       str \in CodecStrings}
      \cup {Msg(t, <<>>) : t \in {t \in Tags : Shape[t] = "absent"}}
      \cup {Msg(t, l) : t \in {t \in Tags : Shape[t] = "array"}, l \in CodecLists}

\* a message in the writer's hands, nothing on the wire yet
CodecInit ==
    /\ \E m \in CodecMessages : writer_msg = [NoCmd EXCEPT !.msg = m]
    /\ app_state = "OnStartup"
    /\ nickname = ""
    /\ active_users_list = <<>>
    /\ files = <<>>
    /\ selected_file = NoPath
    /\ rx = <<>>
    /\ to_ws = <<>>
    /\ from_ui = "startup"
    /\ ui_pc = "idle"
    /\ boot_pc = "none"
    /\ spawned = NoneSpawned
    /\ reader_pc = "none"
    /\ reader_ev = NoEvent
    /\ stream = "open"
    /\ writer_pc = "send"
    /\ wire = <<>>
    /\ n_in = 0
    /\ stdout = <<>>
    /\ to_resolve = <<>>
    /\ decoded = NotDecoded
    /\ n_sub = 0
    /\ n_click = 0
    /\ rejected = {}
    /\ last = NoStep
\* websocket_msg.to_json() and sender.send(Message::Text(json.into()))
CodecEncode ==
    /\ wire = <<>>
    /\ writer_msg' = [writer_msg EXCEPT !.json = ToJson(writer_msg.msg)]
    /\ wire' = <<[id |-> writer_msg.id, json |-> writer_msg'.json]>>
    /\ UNCHANGED <<ui_vars, rx, to_ws, from_ui, boot_vars, reader_vars, writer_pc>>
\* serde_json::from_str::<WebSocketMessage>(&text) on the frame that was sent
CodecDecode ==
    /\ wire # <<>>
    /\ decoded = NotDecoded
    /\ decoded' = [stage |-> "done", ok |-> Decodes(wire[1].json),
                   msg |-> FromStr(wire[1].json)]
    /\ UNCHANGED <<ui_vars, rx, to_ws, from_ui, boot_vars, reader_pc, reader_ev,
                   stream, n_in, stdout, to_resolve, writer_vars>>
CodecNext == CodecEncode \/ CodecDecode
CodecSpec == CodecInit /\ [][CodecNext]_vars

C15_GuardedTransitions ==
    /\ [][Handles("RegisterSuccess")
            => app_state' = IF app_state = "WaitForRegisterConfirmation"
                            THEN "Ready" ELSE app_state]_vars
    /\ [][Handles("ReadyToPublishUser")
            => app_state' = IF app_state = "Connecting"
                            THEN "PublishUser" ELSE app_state]_vars
    /\ [][(app_state # "Ready" /\ app_state' = "Ready")
            => app_state = "WaitForRegisterConfirmation" /\ Handles("RegisterSuccess")]_vars
    /\ [][(app_state # "PublishUser" /\ app_state' = "PublishUser")
            => app_state = "Connecting" /\ Handles("ReadyToPublishUser")]_vars
\* what the code does keep: PublishUser is entered only on ReadyToPublishUser,
\* Ready only on RegisterSuccess (AllSystemsGo is never sent)
C15_EnteredOnTheirEvents ==
    /\ [][(app_state # "Ready" /\ app_state' = "Ready") => Handles("RegisterSuccess")]_vars
    /\ [][(app_state # "PublishUser" /\ app_state' = "PublishUser")
            => Handles("ReadyToPublishUser")]_vars

\* ReadyToPublishUser has been put on the AppEvent channel
ReadyPosted ==
    \/ boot_pc = "ready_sent"
    \/ \E i \in 1..Len(rx) : rx[i] = EvReadyToPublishUser

\* C16: the startup handoff happens once: the Receiver is taken out of
\* AppState::OnStartup once (it is gone as soon as the state is left), at most
\* one bootstrap, one reader and one writer are ever spawned, and the reader and
\* the writer are both spawned before ReadyToPublishUser is put on the channel.
C16_StartupHandoffOnce ==
    /\ spawned.take <= 1 /\ spawned.boot <= 1
    /\ spawned.reader <= 1 /\ spawned.writer <= 1
    /\ spawned.take = (IF from_ui = "startup" THEN 0 ELSE 1)
    /\ app_state # "OnStartup" => spawned.take = 1 /\ spawned.boot = 1
    /\ ReadyPosted => spawned.reader = 1 /\ spawned.writer = 1
    /\ spawned.reader = (IF reader_pc = "none" THEN 0 ELSE 1)
    /\ spawned.writer = (IF writer_pc = "none" THEN 0 ELSE 1)
\* ReadyToPublishUser is on the channel, the reader already holds a frame's
\* event and the writer is waiting for commands
C16_Witness ==
    /\ EvReadyToPublishUser = Head(rx \o <<NoEvent>>)
    /\ spawned = [take |-> 1, boot |-> 1, reader |-> 1, writer |-> 1]
    /\ reader_pc = "send"
    /\ writer_pc = "recv"

\* a task is at a `tx.send(..).await` with an event in hand
ReaderPosting == reader_pc = "send"
WriterPosting == writer_pc = "report"
BootPosting == boot_pc \in {"send_ready"} \cup DOMAIN BootContext
BootPostEnabled == ENABLED BootSendReady \/ ENABLED BootSendFatal

\* C17: backpressure on the AppEvent channel is fail-fast: a task (reader,
\* writer or bootstrap) that posts an event while the channel is full gets an
\* immediate failure and never waits for the UI thread to drain the channel.
C17_TasksNeverWait ==
    /\ ReaderPosting => ENABLED ReaderSend
    /\ WriterPosting => ENABLED WriterReport
    /\ BootPosting => BootPostEnabled
\* C17 as amended: a task that posts an event while the channel is full waits
\* until the UI thread has taken an event off it, and the event is then
\* appended: a task's event is delayed, never refused and never dropped.
C17_TasksWaitForRoom ==
    /\ [](ReaderPosting => (ENABLED ReaderSend <=> Len(rx) < EventCap))
    /\ [](WriterPosting => (ENABLED WriterReport <=> Len(rx) < EventCap))
    /\ [](BootPosting => (BootPostEnabled <=> Len(rx) < EventCap))
    /\ [][(ReaderPosting /\ ~ReaderPosting') => rx' = Append(rx, reader_ev)]_vars
    /\ [][(WriterPosting /\ ~WriterPosting')
            => rx' = Append(rx, EvFatalError("Websocket send failed"))]_vars
    /\ [][(BootPosting /\ ~BootPosting') => Len(rx') = Len(rx) + 1]_vars
\* the reader and the writer both wait with an event while the channel is full
C17_Witness ==
    /\ Len(rx) = EventCap
    /\ ReaderPosting
    /\ WriterPosting
    /\ reader_ev.type = "UpdateActiveUsersList"

\* the UI thread has just run the Ready arm
RanReady == last.op = "match" /\ last.pre = "Ready"
\* the PrepareFile commands that frame tried to submit
Published == SelectSeq(last.subs, LAMBDA m : m.tag = "PrepareFile")

\* C18: PrepareFile is submitted only for a pending file (selected_file set by
\* "Send to") and carries that file's path, and selected_file is empty right
\* after the attempt; a click on a roster name while no file is pending
\* submits no PrepareFile and raises no error.
C18_PublishOnlyPending ==
    RanReady =>
      /\ Published # <<>>
           => /\ last.click = "send_to"
              /\ Len(Published) = 1
              /\ \E i \in 1..Len(files) :
                   Published[1] = PrepareFile(PathString(Absolute(files[i])))
      /\ selected_file = NoPath
      /\ last.click = "roster" => Published = <<>> /\ ui_pc # "panicked"
\* the part of C18 that holds: what is published is the file picked with
\* "Send to", once, and selected_file is empty after every frame
C18_PendingFilePublishedOnce ==
    RanReady =>
      /\ Published # <<>>
           => /\ last.click = "send_to"
              /\ Len(Published) = 1
              /\ \E i \in 1..Len(files) :
                   Published[1] = PrepareFile(PathString(Absolute(files[i])))
      /\ selected_file = NoPath
      /\ last.click = "roster" => Published = <<>>

\* where the frames of a given "type" stand on the wire
FramesOf(types) == {i \in 1..Len(wire) : wire[i].json.type \in types}
\* the Register commands the channel accepted, wherever they are now
RegistersAccepted ==
    Cardinality({i \in 1..Len(to_ws) : to_ws[i].msg.tag = "Register"})
      + (IF writer_msg.msg.tag = "Register" THEN 1 ELSE 0)
      + Cardinality(FramesOf({"register"}))

\* C19: Register is the first client frame and is sent at most once: whatever
\* the relay sends, at most one Register is submitted, and no
\* get_active_users_list or send_file frame is handed to the sink before the
\* register frame.
C19_RegisterFirstAndOnce ==
    /\ RegistersAccepted <= 1
    /\ \A i \in FramesOf({"get_active_users_list", "send_file"}) :
         \E j \in FramesOf({"register"}) : j < i
\* the part of C19 that holds: Register is submitted by the PublishUser arm
\* alone, once per ReadyToPublishUser, and the bootstrap posts that event once
C19_RegisterAtMostOnce ==
    /\ [](RegistersAccepted <= 1)
    /\ [][(n_sub' > n_sub /\ \E i \in 1..Len(last'.subs) : last'.subs[i].tag = "Register")
            => /\ app_state = "PublishUser" /\ boot_pc = "ready_sent"
               /\ EvReadyToPublishUser \notin {rx[i] : i \in 1..Len(rx)}
               /\ app_state' = "WaitForRegisterConfirmation"
               /\ last'.subs = <<Register(nickname)>>]_vars
    /\ [][boot_pc = "ready_sent"
            => ~(Len(rx') > Len(rx) /\ rx'[Len(rx')] = EvReadyToPublishUser)]_vars

(* ------------------- a session that starts up undisturbed -------------- *)
\* LiveSpec: both halves of the bootstrap succeed, the register frame is
\* delivered, the relay sends RegisterSuccess in answer to it and not before,
\* keeps the connection open until then, and the window is neither closed nor
\* clicked; every thread that can step eventually does.
RegisterSuccessFrame == Text(ToJson(Msg("RegisterSuccess", <<>>)))
Answered ==
    \/ reader_ev = EvRegisterSuccess
    \/ \E i \in 1..Len(rx) : rx[i] = EvRegisterSuccess
    \/ app_state = "Ready"
LiveBootJoin == BootJoin /\ boot_pc' = "send_ready"
LiveWriterSend == WriterSend /\ writer_pc' = "recv"
\* any frame but an unsolicited RegisterSuccess; the stream ends only later
LiveReaderNext ==
    /\ ReaderNext
    /\ reader_ev' # EvRegisterSuccess
    /\ stream' = "ended" => Answered
\* the relay's answer reaches receiver.next()
RelayAnswer ==
    /\ reader_pc = "next"
    /\ stream = "open"
    /\ \E i \in 1..Len(wire) : wire[i].json = ToJson(Register(nickname))
    /\ ~Answered
    /\ n_in' = n_in + 1
    /\ reader_ev' = ProcessMessage(RegisterSuccessFrame)
    /\ reader_pc' = "send"
    /\ stdout' = stdout \o Printed(RegisterSuccessFrame)
    /\ UNCHANGED <<ui_vars, rx, to_ws, from_ui, boot_vars, stream, to_resolve,
                   decoded, writer_vars>>
LiveReady == Ready /\ n_click' = n_click
UiStep == UpdateRecv \/ UpdateDrained \/ OnStartup \/ Idle \/ PublishUser \/ LiveReady
BootStep == LiveBootJoin \/ BootSendReady
ReaderStep == ReaderSend \/ RelayAnswer \/ ReaderSpin
WriterStep == WriterRecv \/ LiveWriterSend
LiveNext ==
    \/ UpdateRecv
    \/ UpdateDrained
    \/ OnStartup
    \/ Idle
    \/ PublishUser
    \/ LiveReady
    \/ LiveBootJoin
    \/ BootSendReady
    \/ LiveReaderNext
    \/ RelayAnswer
    \/ ReaderSpin
    \/ ReaderSend
    \/ WriterRecv
    \/ LiveWriterSend
LiveSpec ==
    /\ Init
    /\ [][LiveNext]_vars
    /\ WF_vars(UiStep)
    /\ WF_vars(BootStep)
    /\ WF_vars(ReaderStep)
    /\ WF_vars(WriterStep)

\* the order of the states of a start-up
StartupOrder ==
    {<<"OnStartup", "Connecting">>, <<"Connecting", "PublishUser">>,
     <<"PublishUser", "WaitForRegisterConfirmation">>,
     <<"WaitForRegisterConfirmation", "Ready">>}

\* C20: when both halves of the bootstrap succeed, the relay answers Register
\* with RegisterSuccess and the UI thread and the tasks are scheduled fairly,
\* the session eventually reaches Ready, having passed through Connecting,
\* PublishUser and WaitForRegisterConfirmation in that order.
C20_ProgressToReady ==
    /\ <>(app_state = "Connecting"
            /\ <>(app_state = "PublishUser"
                    /\ <>(app_state = "WaitForRegisterConfirmation"
                            /\ <>(app_state = "Ready"))))
    /\ [][app_state' # app_state => <<app_state, app_state'>> \in StartupOrder]_vars
\* Ready was entered from WaitForRegisterConfirmation on the relay's answer to
\* the register frame, after another frame of the relay
C20_Witness ==
    /\ app_state = "Ready"
    /\ Handled("RegisterSuccess", "WaitForRegisterConfirmation")
    /\ wire = <<[id |-> 1, json |-> ToJson(Register(nickname))]>>
    /\ n_in = 2
====
